---- MODULE Spec2Model ----
(***************************************************************************)
(* MedAssist: the diagnosis relay between the Diagnosis page (client), the *)
(* Express endpoint POST /api/diagnose (primary backend), the local NLP     *)
(* service (fallback backend), the SQLite storage and the localStorage     *)
(* snapshot.                                                                *)
(***************************************************************************)
EXTENDS Integers, Sequences, FiniteSets, TLC

\* ---------------------------------------------------------------- bounds
MaxRequests == 1
MaxPatients == 1

Requests == 1..MaxRequests

\* ------------------------------------------------------------ value sets
\* JSON null in a string-typed field, a missing patientId, a null weight.
Null == "null"
NoId == 0
NullWeight == 0
\* An id that no patient row carries (ids are handed out from 1 upwards).
UnknownId == 99

\* selectedPatient === null on the Diagnosis page
NoPatient == [id |-> NoId, name |-> Null, age |-> 0, gender |-> Null,
              weight |-> NullWeight, createdAt |-> 0]

\* Bodies accepted by POST /api/patients (insertPatientSchema).
PatientInputs ==
  { [name |-> "A", age |-> 17, gender |-> "male",   weight |-> 70],
    [name |-> "B", age |-> 60, gender |-> "female", weight |-> NullWeight] }

\* selectedSymptoms on the page / symptoms of a payload
SymptomLists == { <<>>, <<"cough", "fever">> }

\* 2xx bodies of the NLP service at :8000/analyze (the same service answers
\* the Express handler and the page's offline call).
NlpResponses ==
  { [primaryDiagnosis |-> "Acute febrile illness (likely viral)",
     differentialDiagnoses |->
        << [condition |-> "Viral infection", confidence |-> 80],
           [condition |-> "Bacterial infection", confidence |-> 60] >>,
     requiresReferral |-> FALSE,
     referralReason |-> Null],
    [primaryDiagnosis |-> "Non-specific chest pain",
     differentialDiagnoses |-> << >>,
     requiresReferral |-> TRUE,
     referralReason |-> "Evaluate cardiac causes"] }

\* The "mode" field the NLP service may itself put in a body ("none": no
\* such field).
NoMode == "none"
ResponseModes == { NoMode, "offline", "online" }

NoBody == [none |-> TRUE]

\* Where the client code runs.  Browser: navigator is an object with a
\* boolean onLine.  BareNavigator: navigator is an object without onLine
\* (Node.js 21 and later, Deno, React Native).  NoNavigator: typeof
\* navigator === "undefined" (Node.js before 21).
Browser == "browser"
BareNavigator == "bare"
NoNavigator == "none"
Hosts == { Browser, BareNavigator, NoNavigator }

VARIABLES
  host,           \* what the global "navigator" is where the client runs
  page,           \* the Diagnosis page as mounted: its form state
  online,         \* navigator.onLine of a browser
  now,            \* wall clock, read by nowIso() and new Date()
  patients,       \* table patients, rows in insertion order
  diagnoses,      \* table diagnoses, rows in insertion order
  knowledge,      \* table knowledge_base, rows in insertion order
  cacheDiagnoses, \* localStorage["medassist-cache-diagnoses"]
  lastSync,       \* localStorage["medassist-last-sync"]
  cachePatients,  \* localStorage["medassist-cache-patients"]
  reply,          \* the last call of the storage or of the snapshot store
  issued,         \* the Patient records createPatient has returned
  cli,            \* per request: the client side of the call
  srv             \* per request: the Express handler serving it

vars == << host, page, online, now, patients, diagnoses, knowledge,
           cacheDiagnoses, lastSync, cachePatients, reply, issued, cli, srv >>

\* DiagnosisPage as Route "/" mounts it: selectedPatient null,
\* selectedSymptoms [], a new useMutation.  since: how many analyze calls
\* had been started, by earlier mounts, when this one was made.
FreshPage(started) ==
  [ mounted |-> TRUE, selectedPatient |-> NoPatient,
    selectedSymptoms |-> << >>, since |-> started ]

\* localStorage.getItem(...) === null
Absent == << [absent |-> TRUE] >>
NoSync == -1

\* op: the method called, arg: its argument, value: what it returned, at:
\* the time of the call.
NoReply == [op |-> "none", arg |-> NoBody, value |-> NoBody, at |-> 0]

\* kind: "page" (analyzeMutation of the Diagnosis page) or "hook"
\* (useDiagnosis); pc: where the call stands; input: the payload; result:
\* what the mutation resolved with; toast: the description shown.
\* History of the call, kept for the properties: primaryCalls and
\* fallbackCalls count the calls made, oracle is what isOnline() returned,
\* primaryOutcome how the POST ended for the client, source which backend
\* produced the result, responseMode the mode field the fallback body had.
IdleClient ==
  [ kind |-> "none", pc |-> "idle", input |-> NoBody,
    primaryCalls |-> 0, fallbackCalls |-> 0,
    result |-> NoBody, toast |-> "none",
    oracle |-> "none", primaryOutcome |-> "none",
    source |-> "none", responseMode |-> "none" ]

\* spc: where the handler stands; ai: the NLP body; diagnosis and kb: the
\* rows createDiagnosis and addKnowledgeEntry returned; status and body:
\* the response.  nlpCalls counts the axios calls made; error names the
\* call whose exception the catch block logged.
IdleServer ==
  [ spc |-> "none", nlpCalls |-> 0, ai |-> NoBody,
    diagnosis |-> NoBody, kb |-> NoBody,
    status |-> 0, body |-> NoBody, error |-> "none" ]

Init ==
  /\ online \in BOOLEAN
  /\ now = 0
  /\ patients = << >>
  /\ diagnoses = << >>
  /\ knowledge = << >>
  /\ cacheDiagnoses = Absent
  /\ lastSync = NoSync
  /\ cachePatients = Absent
  /\ reply = NoReply
  /\ host = Browser
  /\ page = FreshPage(0)
  /\ issued = {}
  /\ cli = [r \in Requests |-> IdleClient]
  /\ srv = [r \in Requests |-> IdleServer]

\* ------------------------------------------------------------ environment
\* window "online" / "offline" events of a browser
GoOnline ==
  /\ host = Browser
  /\ ~online
  /\ online' = TRUE
  /\ UNCHANGED << host, page, now, patients, diagnoses, knowledge,
                  cacheDiagnoses, lastSync, cli, srv,
                  cachePatients, reply, issued >>

GoOffline ==
  /\ host = Browser
  /\ online
  /\ online' = FALSE
  /\ UNCHANGED << host, page, now, patients, diagnoses, knowledge,
                  cacheDiagnoses, lastSync, cli, srv,
                  cachePatients, reply, issued >>

\* ---------------------------------------------------------------- storage
\* Variant: the same identifier is handed out every time.
newId_Fixed(table) == 1

\* newId(): a fresh identifier per table
newId(table) == Len(table) + 1

nowIso == now

PatientExists(id) == \E i \in 1..Len(patients) : patients[i].id = id

\* insertPatient.weight ?? null
weightOrNull(insertPatient) ==
  IF "weight" \in DOMAIN insertPatient THEN insertPatient.weight
  ELSE NullWeight

\* SqliteStorage.createPatient: the row inserted
createPatient(insertPatient) ==
  [ id |-> newId(patients),
    name |-> insertPatient.name,
    age |-> insertPatient.age,
    gender |-> insertPatient.gender,
    weight |-> weightOrNull(insertPatient),
    createdAt |-> nowIso ]

\* POST /api/patients with a body the schema accepts
CreatePatient(p) ==
  /\ Len(patients) < MaxPatients
  /\ patients' = Append(patients, createPatient(p))
  /\ UNCHANGED << host, page, online, now, diagnoses, knowledge, cacheDiagnoses,
                  lastSync, cli, srv,
                  cachePatients, reply, issued >>


\* symptomAnalysisSchema.parse(req.body): patientId a string, at least one
\* symptom, patientWeight a number or absent (a JSON null is rejected).
symptomAnalysisSchemaOk(body) ==
  /\ body.patientId # NoId
  /\ Len(body.symptoms) >= 1
  /\ body.patientWeight # NullWeight

\* Variant: the foreign_keys pragma is left off.
ForeignKeyOk_Off(patientId) == TRUE

\* foreign_keys = ON: diagnoses.patientId REFERENCES patients(id)
ForeignKeyOk(patientId) == PatientExists(patientId)

\* SqliteStorage.createDiagnosis: the row inserted and returned
createDiagnosis(insertDiagnosis) ==
  [ id |-> newId(diagnoses),
    patientId |-> insertDiagnosis.patientId,
    symptoms |-> insertDiagnosis.symptoms,
    primaryDiagnosis |-> insertDiagnosis.primaryDiagnosis,
    differentialDiagnoses |-> insertDiagnosis.differentialDiagnoses,
    requiresReferral |-> insertDiagnosis.requiresReferral,
    referralReason |-> insertDiagnosis.referralReason,
    language |-> insertDiagnosis.language,
    createdAt |-> nowIso ]

\* SqliteStorage.addKnowledgeEntry: the row inserted and returned
addKnowledgeEntry(entry) ==
  [ id |-> newId(knowledge),
    symptoms |-> entry.symptoms,
    ageGroup |-> entry.ageGroup,
    gender |-> entry.gender,
    diagnosis |-> entry.diagnosis,
    confidence |-> entry.confidence,
    outcome |-> Null,
    createdAt |-> nowIso ]

\* Variant: the first comparison is <= instead of <.
ageGroup_Le18(patientAge) ==
  IF patientAge <= 18 THEN "child"
  ELSE IF patientAge < 60 THEN "adult"
  ELSE "senior"

\* validatedData.patientAge < 18 ? "child" : < 60 ? "adult" : "senior"
ageGroup(patientAge) ==
  IF patientAge < 18 THEN "child"
  ELSE IF patientAge < 60 THEN "adult"
  ELSE "senior"

\* A differential whose confidence field is absent or null
NoConfidence == -1

\* Variant: the last differential is read instead of the first.
topConfidence_Last(ai) ==
  IF /\ Len(ai.differentialDiagnoses) >= 1
     /\ ai.differentialDiagnoses[Len(ai.differentialDiagnoses)].confidence
          # NoConfidence
  THEN ai.differentialDiagnoses[Len(ai.differentialDiagnoses)].confidence
  ELSE 100

\* aiDiagnosis.differentialDiagnoses?.[0]?.confidence ?? 100
topConfidence(ai) ==
  IF /\ Len(ai.differentialDiagnoses) >= 1
     /\ ai.differentialDiagnoses[1].confidence # NoConfidence
  THEN ai.differentialDiagnoses[1].confidence
  ELSE 100

\* ------------------------------------------------ the Record Gateway
\* A createdAt column holds the text of toISOString(), which names an
\* instant to the millisecond: the text is written here as that instant.
\* new Date(text) is the Date object of the instant.
newDate(iso) == [date |-> iso]

\* datetime(createdAt) of SQLite: "YYYY-MM-DD HH:MM:SS", the instant cut
\* to whole seconds
datetime(iso) == iso \div 1000

\* The result of .get() when no row matches
Undefined == [undefined |-> TRUE]

\* ORDER BY key DESC over the rows in scan order, and Array.sort with
\* (a, b) => key(b) - key(a): both keep rows of equal key in the order they
\* had.  keys[i] is the key of seq[i].
SortDescByKey(seq, keys) ==
  LET n == Len(seq)
      rank(i) == 1 + Cardinality({ j \in 1..n :
                       \/ keys[j] > keys[i]
                       \/ (keys[j] = keys[i] /\ j < i) })
  IN [ k \in 1..n |-> seq[CHOOSE i \in 1..n : rank(i) = k] ]

\* Variant: createdAt is taken from the clock, not from the row.
rowToPatient_Now(row) ==
  [ id |-> row.id, name |-> row.name, age |-> row.age,
    gender |-> row.gender, weight |-> row.weight,
    createdAt |-> newDate(now) ]

rowToPatient(row) ==
  [ id |-> row.id, name |-> row.name, age |-> row.age,
    gender |-> row.gender, weight |-> row.weight,
    createdAt |-> newDate(row.createdAt) ]

rowToDiagnosis(row) == [ row EXCEPT !.createdAt = newDate(row.createdAt) ]

rowToKnowledge(row) == [ row EXCEPT !.createdAt = newDate(row.createdAt) ]

\* rows.map(rowToPatient), rows.map(rowToDiagnosis), rows.map(rowToKnowledge)
mapRowToPatient(rows) == [ i \in 1..Len(rows) |-> rowToPatient(rows[i]) ]

mapRowToDiagnosis(rows) == [ i \in 1..Len(rows) |-> rowToDiagnosis(rows[i]) ]

mapRowToKnowledge(rows) == [ i \in 1..Len(rows) |-> rowToKnowledge(rows[i]) ]

\* SqliteStorage.createPatient: the record returned
createPatientReturn(insertPatient) ==
  [ id |-> newId(patients),
    name |-> insertPatient.name,
    age |-> insertPatient.age,
    gender |-> insertPatient.gender,
    weight |-> weightOrNull(insertPatient),
    createdAt |-> newDate(nowIso) ]

\* SqliteStorage.getPatient
getPatient(id) ==
  IF \E i \in 1..Len(patients) : patients[i].id = id
  THEN rowToPatient(patients[CHOOSE i \in 1..Len(patients) :
                                patients[i].id = id])
  ELSE Undefined

\* SqliteStorage.getDiagnosis
getDiagnosis(id) ==
  IF \E i \in 1..Len(diagnoses) : diagnoses[i].id = id
  THEN rowToDiagnosis(diagnoses[CHOOSE i \in 1..Len(diagnoses) :
                                    diagnoses[i].id = id])
  ELSE Undefined

CreatedAtKeys(rows) == [ i \in 1..Len(rows) |-> datetime(rows[i].createdAt) ]

\* SqliteStorage.getAllPatients
getAllPatients ==
  mapRowToPatient(SortDescByKey(patients, CreatedAtKeys(patients)))

\* SqliteStorage.getAllDiagnoses
getAllDiagnoses ==
  mapRowToDiagnosis(SortDescByKey(diagnoses, CreatedAtKeys(diagnoses)))

\* SqliteStorage.getDiagnosesByPatient
getDiagnosesByPatient(patientId) ==
  LET rows == SelectSeq(diagnoses, LAMBDA d : d.patientId = patientId)
  IN mapRowToDiagnosis(SortDescByKey(rows, CreatedAtKeys(rows)))

Elements(seq) == { seq[i] : i \in 1..Len(seq) }

\* Variant: every query symptom must be among the row's symptoms.
symptomsOverlap_Every(symptoms, rowSymptoms) ==
  \A i \in 1..Len(symptoms) : symptoms[i] \in Elements(rowSymptoms)

\* symptoms.some((s) => rowSymptoms.includes(s))
symptomsOverlap(symptoms, rowSymptoms) ==
  \E i \in 1..Len(symptoms) : symptoms[i] \in Elements(rowSymptoms)

\* SqliteStorage.searchKnowledge: the SELECT, the filter, the sort
searchKnowledge(symptoms, group, gender) ==
  LET rows == SelectSeq(knowledge, LAMBDA k :
                 /\ k.ageGroup = group
                 /\ (k.gender = gender \/ k.gender = "other"))
      filtered == SelectSeq(rows, LAMBDA k :
                     symptomsOverlap(symptoms, k.symptoms))
      mapped == mapRowToKnowledge(filtered)
  IN SortDescByKey(mapped,
                   [ i \in 1..Len(mapped) |-> mapped[i].confidence ])

\* ------------------------------------------------ POST /api/diagnose
\* The handler up to its first await: parse the body, then call the NLP
\* service; a ZodError is answered with 400.
ServerValidate(r) ==
  /\ srv[r].spc = "received"
  /\ IF symptomAnalysisSchemaOk(cli[r].input)
     THEN srv' = [srv EXCEPT ![r].spc = "nlp_wait",
                             ![r].nlpCalls = @ + 1]
     ELSE srv' = [srv EXCEPT ![r].spc = "done", ![r].status = 400,
                             ![r].error = "parse"]
  /\ UNCHANGED << host, page, online, now, patients, diagnoses, knowledge,
                  cacheDiagnoses, lastSync, cli,
                  cachePatients, reply, issued >>

\* Variant: a row without a diagnosis is stored before the 500 is sent.
NlpFail_StoresRow(r) ==
  /\ srv[r].spc = "nlp_wait"
  /\ LET v == cli[r].input
         row == createDiagnosis(
                  [ patientId |-> v.patientId,
                    symptoms |-> v.symptoms,
                    primaryDiagnosis |-> Null,
                    differentialDiagnoses |-> << >>,
                    requiresReferral |-> FALSE,
                    referralReason |-> Null,
                    language |-> v.language ])
     IN /\ diagnoses' = Append(diagnoses, row)
        /\ srv' = [srv EXCEPT ![r].spc = "done", ![r].status = 500,
                              ![r].error = "axios.post"]
  /\ UNCHANGED << host, page, online, now, patients, knowledge,
                  cacheDiagnoses, lastSync, cli,
                  cachePatients, reply, issued >>

\* axios.post rejects (timeout after 28 s, connection refused, non-2xx):
\* the catch block answers 500.
NlpFail(r) ==
  /\ srv[r].spc = "nlp_wait"
  /\ srv' = [srv EXCEPT ![r].spc = "done", ![r].status = 500,
                          ![r].error = "axios.post"]
  /\ UNCHANGED << host, page, online, now, patients, diagnoses, knowledge,
                  cacheDiagnoses, lastSync, cli,
                  cachePatients, reply, issued >>

\* Variant: a failure of createDiagnosis is swallowed and the handler goes
\* on to the knowledge entry.
NlpSucceed_SwallowCreateError(r, ai, dbFault) ==
  /\ srv[r].spc = "nlp_wait"
  /\ LET v == cli[r].input
         row == createDiagnosis(
                  [ patientId |-> v.patientId,
                    symptoms |-> v.symptoms,
                    primaryDiagnosis |-> ai.primaryDiagnosis,
                    differentialDiagnoses |-> ai.differentialDiagnoses,
                    requiresReferral |-> ai.requiresReferral,
                    referralReason |-> ai.referralReason,
                    language |-> v.language ])
     IN IF ForeignKeyOk(v.patientId) /\ ~dbFault
        THEN /\ diagnoses' = Append(diagnoses, row)
             /\ srv' = [srv EXCEPT ![r].spc = "kb", ![r].ai = ai,
                                   ![r].diagnosis = row]
        ELSE /\ diagnoses' = diagnoses
             /\ srv' = [srv EXCEPT ![r].spc = "kb", ![r].ai = ai]
  /\ UNCHANGED << host, page, online, now, patients, knowledge, cacheDiagnoses,
                  lastSync, cli,
                  cachePatients, reply, issued >>

\* axios.post resolves with aiDiagnosis; storage.createDiagnosis runs.  The
\* INSERT throws when the patient row is missing or the store fails
\* (dbFault); the catch block then answers 500.
NlpSucceed(r, ai, dbFault) ==
  /\ srv[r].spc = "nlp_wait"
  /\ LET v == cli[r].input
         row == createDiagnosis(
                  [ patientId |-> v.patientId,
                    symptoms |-> v.symptoms,
                    primaryDiagnosis |-> ai.primaryDiagnosis,
                    differentialDiagnoses |-> ai.differentialDiagnoses,
                    requiresReferral |-> ai.requiresReferral,
                    referralReason |-> ai.referralReason,
                    language |-> v.language ])
     IN IF ForeignKeyOk(v.patientId) /\ ~dbFault
        THEN /\ diagnoses' = Append(diagnoses, row)
             /\ srv' = [srv EXCEPT ![r].spc = "kb", ![r].ai = ai,
                                   ![r].diagnosis = row]
        ELSE /\ diagnoses' = diagnoses
             /\ srv' = [srv EXCEPT ![r].spc = "done", ![r].status = 500,
                                   ![r].error = "createDiagnosis"]
  /\ UNCHANGED << host, page, online, now, patients, knowledge, cacheDiagnoses,
                  lastSync, cli,
                  cachePatients, reply, issued >>

\* Variant: a failure of addKnowledgeEntry is logged and the handler still
\* answers 201 with the stored diagnosis.
AddKnowledge_LogAndContinue(r, dbFault) ==
  /\ srv[r].spc = "kb"
  /\ LET v == cli[r].input
         ai == srv[r].ai
         entry == addKnowledgeEntry(
                    [ symptoms |-> v.symptoms,
                      ageGroup |-> ageGroup(v.patientAge),
                      gender |-> v.patientGender,
                      diagnosis |-> ai.primaryDiagnosis,
                      confidence |-> topConfidence(ai) ])
     IN /\ IF ~dbFault
           THEN /\ knowledge' = Append(knowledge, entry)
                /\ srv' = [srv EXCEPT ![r].spc = "done", ![r].kb = entry,
                                      ![r].status = 201,
                                      ![r].body = srv[r].diagnosis]
           ELSE /\ knowledge' = knowledge
                /\ srv' = [srv EXCEPT ![r].spc = "done",
                                      ![r].status = 201,
                                      ![r].body = srv[r].diagnosis]
  /\ UNCHANGED << host, page, online, now, patients, diagnoses, cacheDiagnoses,
                  lastSync, cli,
                  cachePatients, reply, issued >>

\* Variant: the two INSERTs form one transaction; a failure of the second
\* takes the diagnosis row back.
AddKnowledge_Rollback(r, dbFault) ==
  /\ srv[r].spc = "kb"
  /\ LET v == cli[r].input
         ai == srv[r].ai
         entry == addKnowledgeEntry(
                    [ symptoms |-> v.symptoms,
                      ageGroup |-> ageGroup(v.patientAge),
                      gender |-> v.patientGender,
                      diagnosis |-> ai.primaryDiagnosis,
                      confidence |-> topConfidence(ai) ])
     IN IF ~dbFault
        THEN /\ knowledge' = Append(knowledge, entry)
             /\ diagnoses' = diagnoses
             /\ srv' = [srv EXCEPT ![r].spc = "done", ![r].kb = entry,
                                   ![r].status = 201,
                                   ![r].body = srv[r].diagnosis]
        ELSE /\ knowledge' = knowledge
             /\ diagnoses' = SelectSeq(diagnoses,
                                LAMBDA d : d.id # srv[r].diagnosis.id)
             /\ srv' = [srv EXCEPT ![r].spc = "done", ![r].status = 500,
                                   ![r].error = "addKnowledgeEntry"]
  /\ UNCHANGED << host, page, online, now, patients, cacheDiagnoses,
                  lastSync, cli,
                  cachePatients, reply, issued >>

\* After createDiagnosis: derive the age group, storage.addKnowledgeEntry,
\* then res.status(201).json(diagnosis).  When the INSERT throws (dbFault)
\* the catch block answers 500.
AddKnowledge(r, dbFault) ==
  /\ srv[r].spc = "kb"
  /\ LET v == cli[r].input
         ai == srv[r].ai
         entry == addKnowledgeEntry(
                    [ symptoms |-> v.symptoms,
                      ageGroup |-> ageGroup(v.patientAge),
                      gender |-> v.patientGender,
                      diagnosis |-> ai.primaryDiagnosis,
                      confidence |-> topConfidence(ai) ])
     IN IF ~dbFault
        THEN /\ knowledge' = Append(knowledge, entry)
             /\ srv' = [srv EXCEPT ![r].spc = "done", ![r].kb = entry,
                                   ![r].status = 201,
                                   ![r].body = srv[r].diagnosis]
        ELSE /\ knowledge' = knowledge
             /\ srv' = [srv EXCEPT ![r].spc = "done", ![r].status = 500,
                                   ![r].error = "addKnowledgeEntry"]
  /\ UNCHANGED << host, page, online, now, patients, diagnoses, cacheDiagnoses,
                  lastSync, cli,
                  cachePatients, reply, issued >>


\* ------------------------------------------------------------- client
\* JavaScript values of isOnline(), and !value
JsTrue == "true"
JsFalse == "false"
JsUndefined == "undefined"

Not(value) == value \in { JsFalse, JsUndefined }

\* navigator.onLine, read where navigator is an object
navigatorOnLine ==
  IF host = Browser THEN (IF online THEN JsTrue ELSE JsFalse)
  ELSE JsUndefined

\* isOnline(): if (typeof navigator === "undefined") return true;
\* return navigator.onLine
isOnlineReturn ==
  IF host = NoNavigator THEN JsTrue ELSE navigatorOnLine

\* isOnline() as a condition: the value is taken for true
isOnline == ~Not(isOnlineReturn)

\* apiRequest(method, url, data) of lib/queryClient: resolves with the body
\* of a 2xx response and throws on any other status.
apiRequestOk(status) == status >= 200 /\ status <= 299

\* data.mode as JavaScript reads it
ModeOf(data) == IF "mode" \in DOMAIN data THEN data.mode ELSE "undefined"

\* A 2xx body of the NLP service, with or without a "mode" field of its own
FallbackBody(ai, m) == IF m = NoMode THEN ai ELSE ai @@ [mode |-> m]

\* Variant: the body is returned without the tag.
tagMode_Untagged(data) == data

\* diagnoseOffline, fetch resolved ok: if (!("mode" in data)) data.mode =
\* "offline"; return data
tagMode(data) ==
  IF "mode" \in DOMAIN data THEN data ELSE data @@ [mode |-> "offline"]

\* Variant: the minimal result asks for a referral.
degradedResult_Referral(input) ==
  [ mode |-> "offline",
    patientId |-> input.patientId,
    primaryDiagnosis |-> "Offline diagnosis service unavailable",
    differentialDiagnoses |-> << >>,
    treatmentProtocol |-> Null,
    requiresReferral |-> TRUE,
    referralReason |-> "Error in local NLP service",
    knowledgeSnippets |-> << >> ]

\* diagnoseOffline, catch block: the minimal result returned when the fetch
\* rejects, the status is not ok or the body cannot be read
degradedResult(input) ==
  [ mode |-> "offline",
    patientId |-> input.patientId,
    primaryDiagnosis |-> "Offline diagnosis service unavailable",
    differentialDiagnoses |-> << >>,
    treatmentProtocol |-> Null,
    requiresReferral |-> FALSE,
    referralReason |-> "Error in local NLP service",
    knowledgeSnippets |-> << >> ]

\* Variant: only the patient is checked.
handleAnalyzeRejects_PatientOnly(sel, syms) == sel = NoPatient

\* handleAnalyze: the early return with the error toast
handleAnalyzeRejects(sel, syms) == sel = NoPatient \/ Len(syms) = 0

\* offlineCache.getDiagnoses() || []
getDiagnosesOrEmpty == IF cacheDiagnoses = Absent THEN << >> ELSE cacheDiagnoses

\* analyzeMutation.onSuccess: setDiagnosisResult, append the result to the
\* cached diagnoses, toast by data.mode
onSuccess(c, data) ==
  [ c EXCEPT !.pc = "success", !.result = data,
             !.toast = IF ModeOf(data) = "offline"
                       THEN "Diagnosis completed in offline mode"
                       ELSE "Diagnosis completed successfully" ]

\* Variant: the catch block is missing and the error propagates.
onPrimaryFailure_Rethrow(c) ==
  [ c EXCEPT !.pc = "error", !.primaryOutcome = "failed" ]

\* mutationFn, catch block of the online attempt: diagnoseOffline(data)
onPrimaryFailure(c) ==
  [ c EXCEPT !.pc = "fallback_wait", !.fallbackCalls = @ + 1,
             !.primaryOutcome = "failed" ]

\* Variant: the test of isOnline() is inverted.
skipsPrimary_Inverted(reportedOnline) == reportedOnline

\* mutationFn: if (!isOnline()) the primary backend is skipped
skipsPrimary(reportedOnline) == ~reportedOnline

\* Requests are numbered in the order they are issued.
NextToIssue(r) ==
  /\ cli[r].pc = "idle"
  /\ \A q \in Requests : q < r => cli[q].pc # "idle"

\* handleAnalyze followed by the start of mutationFn: reject without a
\* patient or symptoms; else go offline when !isOnline(), else POST
\* /api/diagnose.
HandleAnalyze(r, sel, syms) ==
  /\ NextToIssue(r)
  /\ LET data == [ patientId |-> sel.id, symptoms |-> syms,
                   patientAge |-> sel.age, patientGender |-> sel.gender,
                   patientWeight |-> sel.weight, language |-> "en" ]
         c == [ cli[r] EXCEPT !.kind = "page", !.input = data ]
         o == [ c EXCEPT !.oracle = IF isOnline THEN "online" ELSE "offline" ]
     IN IF handleAnalyzeRejects(sel, syms)
        THEN /\ cli' = [cli EXCEPT ![r] =
                   [ c EXCEPT !.pc = "rejected",
                     !.toast = "Please select a patient and at least one symptom" ]]
             /\ srv' = srv
        ELSE IF skipsPrimary(isOnline)
        THEN /\ cli' = [cli EXCEPT ![r] =
                   [ o EXCEPT !.pc = "fallback_wait",
                              !.fallbackCalls = @ + 1 ]]
             /\ srv' = srv
        ELSE /\ cli' = [cli EXCEPT ![r] =
                   [ o EXCEPT !.pc = "primary_wait",
                              !.primaryCalls = @ + 1 ]]
             /\ srv' = [srv EXCEPT ![r].spc = "received"]
  /\ UNCHANGED << host, page, online, now, patients, diagnoses, knowledge,
                  cacheDiagnoses, lastSync,
                  cachePatients, reply, issued >>

\* Payloads of the useDiagnosis hook, which posts without any check.
HookPayloads ==
  { [ patientId |-> id, symptoms |-> syms, patientAge |-> 30,
      patientGender |-> "male", patientWeight |-> 70, language |-> "en" ] :
    id \in { UnknownId, 1 }, syms \in SymptomLists }

\* useDiagnosis().mutate(payload): apiRequest("POST", "/api/diagnose")
UseDiagnosis(r, payload) ==
  /\ NextToIssue(r)
  /\ cli' = [cli EXCEPT ![r] =
        [ cli[r] EXCEPT !.kind = "hook", !.pc = "primary_wait",
                        !.input = payload, !.primaryCalls = @ + 1 ]]
  /\ srv' = [srv EXCEPT ![r].spc = "received"]
  /\ UNCHANGED << host, page, online, now, patients, diagnoses, knowledge,
                  cacheDiagnoses, lastSync,
                  cachePatients, reply, issued >>

\* The response of POST /api/diagnose reaches the client.  The page returns
\* a 2xx body as the result and runs onSuccess; on any other status
\* apiRequest throws and the page calls diagnoseOffline.  The hook has no
\* catch: its mutation fails.
PrimaryRespond(r) ==
  /\ cli[r].pc = "primary_wait"
  /\ srv[r].spc = "done"
  /\ IF apiRequestOk(srv[r].status)
     THEN IF cli[r].kind = "page"
          THEN /\ cli' = [cli EXCEPT ![r] =
                     [ onSuccess(cli[r], srv[r].body) EXCEPT
                         !.primaryOutcome = "ok", !.source = "primary" ]]
               /\ cacheDiagnoses' = Append(getDiagnosesOrEmpty, srv[r].body)
               /\ lastSync' = now
          ELSE /\ cli' = [cli EXCEPT ![r].pc = "success",
                                     ![r].result = srv[r].body,
                                     ![r].primaryOutcome = "ok",
                                     ![r].source = "primary"]
               /\ UNCHANGED << cacheDiagnoses, lastSync >>
     ELSE /\ IF cli[r].kind = "page"
             THEN cli' = [cli EXCEPT ![r] = onPrimaryFailure(cli[r])]
             ELSE cli' = [cli EXCEPT ![r].pc = "error",
                                     ![r].primaryOutcome = "failed"]
          /\ UNCHANGED << cacheDiagnoses, lastSync >>
  /\ UNCHANGED << host, page, online, now, patients, diagnoses, knowledge, srv,
                  cachePatients, reply, issued >>

\* The fetch of POST /api/diagnose rejects (connection lost or refused):
\* apiRequest throws.  No cancellation reaches the handler, which goes on
\* if it has the request.
TransportError(r) ==
  /\ cli[r].pc = "primary_wait"
  /\ IF cli[r].kind = "page"
     THEN cli' = [cli EXCEPT ![r] = onPrimaryFailure(cli[r])]
     ELSE cli' = [cli EXCEPT ![r].pc = "error",
                             ![r].primaryOutcome = "failed"]
  /\ UNCHANGED << host, page, online, now, patients, diagnoses, knowledge,
                  cacheDiagnoses, lastSync, srv,
                  cachePatients, reply, issued >>

\* diagnoseOffline: the fetch to :8000/analyze resolves ok with a body; the
\* body is tagged and returned, then onSuccess runs.
FallbackRespond(r, ai, m) ==
  /\ cli[r].pc = "fallback_wait"
  /\ LET data == tagMode(FallbackBody(ai, m))
     IN /\ cli' = [cli EXCEPT ![r] =
                [ onSuccess(cli[r], data) EXCEPT
                    !.source = "fallback", !.responseMode = m ]]
        /\ cacheDiagnoses' = Append(getDiagnosesOrEmpty, data)
  /\ lastSync' = now
  /\ UNCHANGED << host, page, online, now, patients, diagnoses, knowledge, srv,
                  cachePatients, reply, issued >>

\* Variant: diagnoseOffline has no catch block; the mutation fails.
FallbackFail_Rethrow(r) ==
  /\ cli[r].pc = "fallback_wait"
  /\ cli' = [cli EXCEPT ![r].pc = "error"]
  /\ UNCHANGED << host, page, online, now, patients, diagnoses, knowledge,
                  cacheDiagnoses, lastSync, srv,
                  cachePatients, reply, issued >>

\* diagnoseOffline: the fetch rejects or answers non-2xx; the catch block
\* returns the minimal result, then onSuccess runs.
FallbackFail(r) ==
  /\ cli[r].pc = "fallback_wait"
  /\ LET data == degradedResult(cli[r].input)
     IN /\ cli' = [cli EXCEPT ![r] =
                [ onSuccess(cli[r], data) EXCEPT !.source = "degraded" ]]
        /\ cacheDiagnoses' = Append(getDiagnosesOrEmpty, data)
  /\ lastSync' = now
  /\ UNCHANGED << host, page, online, now, patients, diagnoses, knowledge, srv,
                  cachePatients, reply, issued >>

\* ---------------------------------------------------------------- system
Next ==
  \/ GoOnline
  \/ GoOffline
  \/ \E p \in PatientInputs : CreatePatient(p)
  \/ \E r \in Requests :
       \E i \in 0..Len(patients), syms \in SymptomLists :
         HandleAnalyze(r, IF i = 0 THEN NoPatient ELSE patients[i], syms)
  \/ \E r \in Requests, payload \in HookPayloads : UseDiagnosis(r, payload)
  \/ \E r \in Requests : ServerValidate(r)
  \/ \E r \in Requests : NlpFail(r)
  \/ \E r \in Requests, ai \in NlpResponses, dbFault \in BOOLEAN :
       NlpSucceed(r, ai, dbFault)
  \/ \E r \in Requests, dbFault \in BOOLEAN : AddKnowledge(r, dbFault)
  \/ \E r \in Requests : PrimaryRespond(r)
  \/ \E r \in Requests : TransportError(r)
  \/ \E r \in Requests, ai \in NlpResponses, m \in ResponseModes :
       FallbackRespond(r, ai, m)
  \/ \E r \in Requests : FallbackFail(r)

Spec == Init /\ [][Next]_vars

\* Every pending step is eventually taken: the event loop runs each ready
\* continuation, axios gives up after its 28 s timeout, and a fetch
\* resolves or rejects.
ServerStep(r) ==
  \/ ServerValidate(r)
  \/ NlpFail(r)
  \/ \E ai \in NlpResponses, dbFault \in BOOLEAN : NlpSucceed(r, ai, dbFault)
  \/ \E dbFault \in BOOLEAN : AddKnowledge(r, dbFault)

FallbackStep(r) ==
  \/ FallbackFail(r)
  \/ \E ai \in NlpResponses, m \in ResponseModes : FallbackRespond(r, ai, m)

\* ---------------------------------------------- the age-group derivation
\* insertPatientSchema: age: z.number().min(0).max(150)
MaxAge == 150

\* A store holding one patient of any admissible age, the browser online.
InitAge ==
  /\ online = TRUE
  /\ now = 0
  /\ \E a \in 0..MaxAge :
       patients = << [ id |-> 1, name |-> "A", age |-> a, gender |-> "male",
                       weight |-> 70, createdAt |-> 0 ] >>
  /\ diagnoses = << >>
  /\ knowledge = << >>
  /\ cacheDiagnoses = Absent
  /\ lastSync = NoSync
  /\ cachePatients = Absent
  /\ reply = NoReply
  /\ host = Browser
  /\ page = FreshPage(0)
  /\ issued = {}
  /\ cli = [r \in Requests |-> IdleClient]
  /\ srv = [r \in Requests |-> IdleServer]

\* One analyze call for that patient, served without a fault.
NextAge ==
  \/ HandleAnalyze(1, patients[1], << "cough", "fever" >>)
  \/ ServerValidate(1)
  \/ \E ai \in NlpResponses : NlpSucceed(1, ai, FALSE)
  \/ AddKnowledge(1, FALSE)
  \/ PrimaryRespond(1)

SpecAge == InitAge /\ [][NextAge]_vars

\* ------------------------------------- the confidence of a knowledge entry
MaxDifferentials == 3

SeqsUpTo(S, n) == UNION { [1..k -> S] : k \in 0..n }

\* Differentials as the NLP service may list them, in any order, with or
\* without a confidence.
Differentials ==
  { [condition |-> "Viral infection", confidence |-> c] :
      c \in { 60, 80, NoConfidence } }

DifferentialBodies ==
  { [primaryDiagnosis |-> "Acute febrile illness (likely viral)",
     differentialDiagnoses |-> l,
     requiresReferral |-> FALSE,
     referralReason |-> Null] : l \in SeqsUpTo(Differentials, MaxDifferentials) }

\* A store holding one patient, the browser online.
InitConfidence ==
  /\ online = TRUE
  /\ now = 0
  /\ patients = << [ id |-> 1, name |-> "A", age |-> 30, gender |-> "male",
                     weight |-> 70, createdAt |-> 0 ] >>
  /\ diagnoses = << >>
  /\ knowledge = << >>
  /\ cacheDiagnoses = Absent
  /\ lastSync = NoSync
  /\ cachePatients = Absent
  /\ reply = NoReply
  /\ host = Browser
  /\ page = FreshPage(0)
  /\ issued = {}
  /\ cli = [r \in Requests |-> IdleClient]
  /\ srv = [r \in Requests |-> IdleServer]

\* One analyze call for that patient, served without a fault, the NLP
\* service answering with any list of differentials.
NextConfidence ==
  \/ HandleAnalyze(1, patients[1], << "cough", "fever" >>)
  \/ ServerValidate(1)
  \/ \E ai \in DifferentialBodies : NlpSucceed(1, ai, FALSE)
  \/ AddKnowledge(1, FALSE)
  \/ PrimaryRespond(1)

SpecConfidence == InitConfidence /\ [][NextConfidence]_vars

\* --------------------------------------- calls of the Record Gateway
MaxRows == 2
MaxClock == 1000

\* The clock moves on by half a second.
ClockSteps == { 500 }

Tick ==
  /\ \E d \in ClockSteps : now + d <= MaxClock /\ now' = now + d
  /\ UNCHANGED << host, page, online, patients, diagnoses, knowledge, cacheDiagnoses,
                  lastSync, cachePatients, reply, issued, cli, srv >>

\* Bodies insertPatientSchema accepts, without and with the optional weight
GatewayPatientInputs ==
  { [name |-> "A", age |-> 30, gender |-> "male"],
    [name |-> "B", age |-> 60, gender |-> "female", weight |-> 70] }

\* storage.createPatient(insertPatient)
CallCreatePatient(insertPatient) ==
  /\ Len(patients) < MaxRows
  /\ patients' = Append(patients, createPatient(insertPatient))
  /\ reply' = [ op |-> "createPatient", arg |-> insertPatient,
                value |-> createPatientReturn(insertPatient), at |-> now ]
  /\ issued' = issued \cup { createPatientReturn(insertPatient) }
  /\ UNCHANGED << host, page, online, now, diagnoses, knowledge, cacheDiagnoses,
                  lastSync, cachePatients, cli, srv >>

\* storage.getPatient(id)
CallGetPatient(id) ==
  /\ reply' = [ op |-> "getPatient", arg |-> [id |-> id],
                value |-> getPatient(id), at |-> now ]
  /\ UNCHANGED << host, page, online, now, patients, diagnoses, knowledge,
                  cacheDiagnoses, lastSync, cachePatients, issued, cli, srv >>

\* storage.getAllPatients()
CallGetAllPatients ==
  /\ reply' = [ op |-> "getAllPatients", arg |-> NoBody,
                value |-> [list |-> getAllPatients], at |-> now ]
  /\ UNCHANGED << host, page, online, now, patients, diagnoses, knowledge,
                  cacheDiagnoses, lastSync, cachePatients, issued, cli, srv >>

\* storage.createDiagnosis(insertDiagnosis): the INSERT throws when the
\* patient row is missing.
CallCreateDiagnosis(patientId, ai) ==
  /\ Len(diagnoses) < MaxRows
  /\ LET insertDiagnosis ==
           [ patientId |-> patientId,
             symptoms |-> << "cough", "fever" >>,
             primaryDiagnosis |-> ai.primaryDiagnosis,
             differentialDiagnoses |-> ai.differentialDiagnoses,
             requiresReferral |-> ai.requiresReferral,
             referralReason |-> ai.referralReason,
             language |-> "en" ]
         row == createDiagnosis(insertDiagnosis)
     IN IF ForeignKeyOk(patientId)
        THEN /\ diagnoses' = Append(diagnoses, row)
             /\ reply' = [ op |-> "createDiagnosis", arg |-> insertDiagnosis,
                           value |-> rowToDiagnosis(row), at |-> now ]
        ELSE /\ diagnoses' = diagnoses
             /\ reply' = [ op |-> "createDiagnosis", arg |-> insertDiagnosis,
                           value |-> [error |-> "FOREIGN KEY constraint failed"],
                           at |-> now ]
  /\ UNCHANGED << host, page, online, now, patients, knowledge, cacheDiagnoses,
                  lastSync, cachePatients, issued, cli, srv >>

\* storage.getDiagnosis(id)
CallGetDiagnosis(id) ==
  /\ reply' = [ op |-> "getDiagnosis", arg |-> [id |-> id],
                value |-> getDiagnosis(id), at |-> now ]
  /\ UNCHANGED << host, page, online, now, patients, diagnoses, knowledge,
                  cacheDiagnoses, lastSync, cachePatients, issued, cli, srv >>

\* storage.getAllDiagnoses()
CallGetAllDiagnoses ==
  /\ reply' = [ op |-> "getAllDiagnoses", arg |-> NoBody,
                value |-> [list |-> getAllDiagnoses], at |-> now ]
  /\ UNCHANGED << host, page, online, now, patients, diagnoses, knowledge,
                  cacheDiagnoses, lastSync, cachePatients, issued, cli, srv >>

\* storage.getDiagnosesByPatient(patientId)
CallGetDiagnosesByPatient(patientId) ==
  /\ reply' = [ op |-> "getDiagnosesByPatient",
                arg |-> [patientId |-> patientId],
                value |-> [list |-> getDiagnosesByPatient(patientId)],
                at |-> now ]
  /\ UNCHANGED << host, page, online, now, patients, diagnoses, knowledge,
                  cacheDiagnoses, lastSync, cachePatients, issued, cli, srv >>

\* Entries as POST /api/diagnose derives them
KnowledgeInputs ==
  { [ symptoms |-> syms, ageGroup |-> g, gender |-> x,
      diagnosis |-> "Acute febrile illness (likely viral)",
      confidence |-> c ] :
    syms \in { << "cough", "fever" >>, << "rash" >> },
    g \in { "child", "adult" },
    x \in { "male", "female", "other" },
    c \in { 60, 80 } }

\* Queries of POST /api/knowledge/search
KnowledgeQueries ==
  { [ symptoms |-> syms, ageGroup |-> g, gender |-> x ] :
    syms \in { << "fever" >>, << "rash", "cough" >> },
    g \in { "child", "adult" },
    x \in { "male", "other" } }

\* Variant: the INSERT replaces what the table holds.
CallAddKnowledgeEntry_Replace(entry) ==
  /\ Len(knowledge) < MaxRows
  /\ knowledge' = << addKnowledgeEntry(entry) >>
  /\ reply' = [ op |-> "addKnowledgeEntry", arg |-> entry,
                value |-> rowToKnowledge(addKnowledgeEntry(entry)),
                at |-> now ]
  /\ UNCHANGED << host, page, online, now, patients, diagnoses, cacheDiagnoses,
                  lastSync, cachePatients, issued, cli, srv >>

\* storage.addKnowledgeEntry(entry)
CallAddKnowledgeEntry(entry) ==
  /\ Len(knowledge) < MaxRows
  /\ knowledge' = Append(knowledge, addKnowledgeEntry(entry))
  /\ reply' = [ op |-> "addKnowledgeEntry", arg |-> entry,
                value |-> rowToKnowledge(addKnowledgeEntry(entry)),
                at |-> now ]
  /\ UNCHANGED << host, page, online, now, patients, diagnoses, cacheDiagnoses,
                  lastSync, cachePatients, issued, cli, srv >>

\* storage.searchKnowledge(symptoms, ageGroup, gender)
CallSearchKnowledge(q) ==
  /\ reply' = [ op |-> "searchKnowledge", arg |-> q,
                value |-> [list |-> searchKnowledge(q.symptoms, q.ageGroup,
                                                    q.gender)],
                at |-> now ]
  /\ UNCHANGED << host, page, online, now, patients, diagnoses, knowledge,
                  cacheDiagnoses, lastSync, cachePatients, issued, cli, srv >>

\* The storage with nothing in it; no page is open.
InitGateway ==
  /\ online = TRUE
  /\ now = 0
  /\ patients = << >>
  /\ diagnoses = << >>
  /\ knowledge = << >>
  /\ cacheDiagnoses = Absent
  /\ lastSync = NoSync
  /\ cachePatients = Absent
  /\ reply = NoReply
  /\ host = Browser
  /\ page = FreshPage(0)
  /\ issued = {}
  /\ cli = [r \in Requests |-> IdleClient]
  /\ srv = [r \in Requests |-> IdleServer]

\* Patients created and read back while the clock runs
NextPatients ==
  \/ Tick
  \/ \E p \in GatewayPatientInputs : CallCreatePatient(p)
  \/ \E id \in 1..(MaxRows + 1) : CallGetPatient(id)

SpecPatients == InitGateway /\ [][NextPatients]_vars

\* Patients and diagnoses created and listed while the clock runs
NextLists ==
  \/ Tick
  \/ CallCreatePatient([name |-> "A", age |-> 30, gender |-> "male"])
  \/ \E id \in 1..MaxRows :
       CallCreateDiagnosis(id, CHOOSE ai \in NlpResponses :
                                  ai.requiresReferral = FALSE)
  \/ CallGetAllPatients
  \/ CallGetAllDiagnoses
  \/ \E id \in 1..MaxRows : CallGetDiagnosesByPatient(id)

SpecLists == InitGateway /\ [][NextLists]_vars

\* Knowledge entries added and searched
NextKnowledge ==
  \/ \E entry \in KnowledgeInputs : CallAddKnowledgeEntry(entry)
  \/ \E q \in KnowledgeQueries : CallSearchKnowledge(q)

SpecKnowledge == InitGateway /\ [][NextKnowledge]_vars

\* Every operation of IStorage, called in any order
NextGateway ==
  \/ CallCreatePatient([name |-> "A", age |-> 30, gender |-> "male"])
  \/ \E id \in 1..MaxRows : CallGetPatient(id)
  \/ CallGetAllPatients
  \/ \E id \in 1..MaxRows :
       CallCreateDiagnosis(id, CHOOSE ai \in NlpResponses :
                                  ai.requiresReferral = FALSE)
  \/ \E id \in 1..MaxRows : CallGetDiagnosis(id)
  \/ \E id \in 1..MaxRows : CallGetDiagnosesByPatient(id)
  \/ CallGetAllDiagnoses
  \/ CallAddKnowledgeEntry(
       [ symptoms |-> << "cough", "fever" >>, ageGroup |-> "adult",
         gender |-> "male",
         diagnosis |-> "Acute febrile illness (likely viral)",
         confidence |-> 80 ])
  \/ CallSearchKnowledge(
       [ symptoms |-> << "fever" >>, ageGroup |-> "adult",
         gender |-> "male" ])

SpecGateway == InitGateway /\ [][NextGateway]_vars

\* ------------------------------------------------ the snapshot store
\* A localStorage key holds JSON text, written here as the value the text
\* encodes; Absent is a key that is not set.  The null a getter returns:
NullList == << [null |-> TRUE] >>

\* Date.toISOString(), and a record as res.json() sends it: the Date
\* becomes its ISO text.
toISOString(d) == d.date

resJson(record) == [ record EXCEPT !.createdAt = toISOString(record.createdAt) ]

\* Variant: the new list is merged into the stored one.
savePatients_Merge(items) ==
  IF cachePatients = Absent THEN items ELSE cachePatients \o items

\* offlineCache.savePatients: the text set under the PATIENTS key
savePatients(items) == items

\* offlineCache.saveDiagnoses: the text set under the DIAGNOSES key
saveDiagnoses(items) == items

\* Variant: the DIAGNOSES key is read.
getPatients_DiagnosesKey ==
  IF cacheDiagnoses = Absent THEN NullList ELSE cacheDiagnoses

\* offlineCache.getPatients: cached ? JSON.parse(cached) : null
getPatients == IF cachePatients = Absent THEN NullList ELSE cachePatients

\* offlineCache.getDiagnoses
getDiagnoses == IF cacheDiagnoses = Absent THEN NullList ELSE cacheDiagnoses

\* offlineCache.getLastSync: lastSync ? new Date(lastSync) : null
getLastSync == IF lastSync = NoSync THEN Undefined ELSE newDate(lastSync)

\* The call made before this one
Previous == [op |-> reply.op, arg |-> reply.arg]

SavePatients(items) ==
  /\ cachePatients' = savePatients(items)
  /\ lastSync' = now
  /\ reply' = [ op |-> "savePatients", arg |-> items, value |-> NoBody,
                at |-> now, prev |-> Previous ]
  /\ UNCHANGED << host, page, online, now, patients, diagnoses, knowledge,
                  cacheDiagnoses, issued, cli, srv >>

GetPatients ==
  /\ reply' = [ op |-> "getPatients", arg |-> NoBody, value |-> getPatients,
                at |-> now, prev |-> Previous ]
  /\ UNCHANGED << host, page, online, now, patients, diagnoses, knowledge,
                  cacheDiagnoses, lastSync, cachePatients, issued, cli, srv >>

SaveDiagnoses(items) ==
  /\ cacheDiagnoses' = saveDiagnoses(items)
  /\ lastSync' = now
  /\ reply' = [ op |-> "saveDiagnoses", arg |-> items, value |-> NoBody,
                at |-> now, prev |-> Previous ]
  /\ UNCHANGED << host, page, online, now, patients, diagnoses, knowledge,
                  cachePatients, issued, cli, srv >>

GetDiagnoses ==
  /\ reply' = [ op |-> "getDiagnoses", arg |-> NoBody,
                value |-> getDiagnoses, at |-> now, prev |-> Previous ]
  /\ UNCHANGED << host, page, online, now, patients, diagnoses, knowledge,
                  cacheDiagnoses, lastSync, cachePatients, issued, cli, srv >>

GetLastSync ==
  /\ reply' = [ op |-> "getLastSync", arg |-> NoBody,
                value |-> getLastSync, at |-> now, prev |-> Previous ]
  /\ UNCHANGED << host, page, online, now, patients, diagnoses, knowledge,
                  cacheDiagnoses, lastSync, cachePatients, issued, cli, srv >>

\* offlineCache.clearAll: every key of CACHE_KEYS is removed
ClearAll ==
  /\ cachePatients' = Absent
  /\ cacheDiagnoses' = Absent
  /\ lastSync' = NoSync
  /\ reply' = [ op |-> "clearAll", arg |-> NoBody, value |-> NoBody,
                at |-> now, prev |-> Previous ]
  /\ UNCHANGED << host, page, online, now, patients, diagnoses, knowledge, issued,
                  cli, srv >>

\* The 24 hours the README gives cached patient data, in milliseconds
DayMs == 86400000

MaxDays == 1

\* More than a day goes by.
DayPasses ==
  /\ now < MaxDays * DayMs
  /\ now' = now + DayMs + 1
  /\ UNCHANGED << host, page, online, patients, diagnoses, knowledge, cacheDiagnoses,
                  lastSync, cachePatients, reply, issued, cli, srv >>

\* Lists as the pages hold them: the bodies of GET /api/patients and of
\* GET /api/diagnoses, and results of diagnoseOffline.
PatientItem(id, name) ==
  [ id |-> id, name |-> name, age |-> 30, gender |-> "male",
    weight |-> NullWeight, createdAt |-> 0 ]

PatientLists ==
  { << >>, << PatientItem(1, "A") >>,
    << PatientItem(2, "B"), PatientItem(1, "A") >> }

DiagnosisLists ==
  { << >>,
    << degradedResult([patientId |-> 1]) >>,
    << tagMode(CHOOSE ai \in NlpResponses : ai.requiresReferral) >> }

NextSnapshot ==
  \/ Tick
  \/ DayPasses
  \/ \E items \in PatientLists : SavePatients(items)
  \/ GetPatients
  \/ \E items \in DiagnosisLists : SaveDiagnoses(items)
  \/ GetDiagnoses
  \/ GetLastSync
  \/ ClearAll

SpecSnapshot == InitGateway /\ [][NextSnapshot]_vars

\* One call followed from its start to its end, in any environment.
NextCall ==
  \/ GoOnline
  \/ GoOffline
  \/ \E p \in PatientInputs : CreatePatient(p)
  \/ \E i \in 0..Len(patients), syms \in SymptomLists :
       HandleAnalyze(1, IF i = 0 THEN NoPatient ELSE patients[i], syms)
  \/ \E payload \in HookPayloads : UseDiagnosis(1, payload)
  \/ ServerValidate(1)
  \/ NlpFail(1)
  \/ \E ai \in NlpResponses, dbFault \in BOOLEAN : NlpSucceed(1, ai, dbFault)
  \/ \E dbFault \in BOOLEAN : AddKnowledge(1, dbFault)
  \/ PrimaryRespond(1)
  \/ TransportError(1)
  \/ \E ai \in NlpResponses, m \in ResponseModes : FallbackRespond(1, ai, m)
  \/ FallbackFail(1)

FairSpec ==
  /\ Init
  /\ [][NextCall]_vars
  /\ WF_vars(ServerStep(1))
  /\ WF_vars(PrimaryRespond(1))
  /\ WF_vars(FallbackStep(1))

\* ------------------------------------------- the client outside a browser
\* The client code loaded where navigator may be missing or bare.
InitHost ==
  /\ host \in Hosts
  /\ page = FreshPage(0)
  /\ online \in BOOLEAN
  /\ host # Browser => online = FALSE
  /\ now = 0
  /\ patients = << >>
  /\ diagnoses = << >>
  /\ knowledge = << >>
  /\ cacheDiagnoses = Absent
  /\ lastSync = NoSync
  /\ cachePatients = Absent
  /\ reply = NoReply
  /\ issued = {}
  /\ cli = [r \in Requests |-> IdleClient]
  /\ srv = [r \in Requests |-> IdleServer]

SpecHost == InitHost /\ [][NextCall]_vars

\* ------------------------------------------------------ concurrent calls
\* Analyze calls for one patient from pages open at the same time (one per
\* tab), all online, the stores without a fault.
MaxCalls == 2

Calls == 1..MaxCalls

InitConcurrent ==
  /\ host = Browser
  /\ page = FreshPage(0)
  /\ online = TRUE
  /\ now = 0
  /\ patients = << [ id |-> 1, name |-> "A", age |-> 17, gender |-> "male",
                     weight |-> 70, createdAt |-> 0 ] >>
  /\ diagnoses = << >>
  /\ knowledge = << >>
  /\ cacheDiagnoses = Absent
  /\ lastSync = NoSync
  /\ cachePatients = Absent
  /\ reply = NoReply
  /\ issued = {}
  /\ cli = [r \in Calls |-> IdleClient]
  /\ srv = [r \in Calls |-> IdleServer]

\* Each handler runs from one await to the next; the event loop may take
\* the continuations of different requests in any order.
NextConcurrent ==
  \/ \E r \in Calls : HandleAnalyze(r, patients[1], << "cough", "fever" >>)
  \/ \E r \in Calls : ServerValidate(r)
  \/ \E r \in Calls : NlpFail(r)
  \/ \E r \in Calls, ai \in NlpResponses : NlpSucceed(r, ai, FALSE)
  \/ \E r \in Calls : AddKnowledge(r, FALSE)
  \/ \E r \in Calls : PrimaryRespond(r)
  \/ \E r \in Calls : FallbackFail(r)

SpecConcurrent == InitConcurrent /\ [][NextConcurrent]_vars

\* ------------------------------------------------ the pages' live reads
\* The bodies of GET /api/patients and GET /api/diagnoses
livePatients ==
  [ i \in 1..Len(getAllPatients) |-> resJson(getAllPatients[i]) ]

liveDiagnoses ==
  [ i \in 1..Len(getAllDiagnoses) |-> resJson(getAllDiagnoses[i]) ]

\* Variant: the effect saves whatever the list holds.
effectSaves_Always(data) == TRUE

\* useEffect of the pages: if (data && data.length > 0) save(data)
effectSaves(data) == Len(data) > 0

\* The patients query of a page settles with the live list and the effect
\* on [patients] runs.
PatientsQuerySettles ==
  /\ reply' = [ op |-> "GET /api/patients", arg |-> NoBody,
                value |-> [list |-> livePatients], at |-> now ]
  /\ IF effectSaves(livePatients)
     THEN /\ cachePatients' = savePatients(livePatients)
          /\ lastSync' = now
     ELSE UNCHANGED << cachePatients, lastSync >>
  /\ UNCHANGED << host, page, online, now, patients, diagnoses, knowledge,
                  cacheDiagnoses, issued, cli, srv >>

\* Variant: the effect saves without looking at the length.
DiagnosesQuerySettles_Unguarded ==
  /\ reply' = [ op |-> "GET /api/diagnoses", arg |-> NoBody,
                value |-> [list |-> liveDiagnoses], at |-> now ]
  /\ cacheDiagnoses' = saveDiagnoses(liveDiagnoses)
  /\ lastSync' = now
  /\ UNCHANGED << host, page, online, now, patients, diagnoses, knowledge,
                  cachePatients, issued, cli, srv >>

\* The diagnoses query of the History page settles with the live list and
\* the effect on [diagnoses] runs.
DiagnosesQuerySettles ==
  /\ reply' = [ op |-> "GET /api/diagnoses", arg |-> NoBody,
                value |-> [list |-> liveDiagnoses], at |-> now ]
  /\ IF effectSaves(liveDiagnoses)
     THEN /\ cacheDiagnoses' = saveDiagnoses(liveDiagnoses)
          /\ lastSync' = now
     ELSE UNCHANGED << cacheDiagnoses, lastSync >>
  /\ UNCHANGED << host, page, online, now, patients, diagnoses, knowledge,
                  cachePatients, issued, cli, srv >>

\* One analyze call and the live reads of the pages, in any order
NextPages ==
  \/ NextCall
  \/ PatientsQuerySettles
  \/ DiagnosesQuerySettles

SpecPages == Init /\ [][NextPages]_vars

\* The same with every pending step taken in the end: the handler's steps
\* and the two responses as in FairSpec, and the queries, which are fetched
\* again on mount, on focus and on reconnect.
FairPages ==
  /\ Init
  /\ [][NextPages]_vars
  /\ WF_vars(ServerStep(1))
  /\ WF_vars(PrimaryRespond(1))
  /\ WF_vars(FallbackStep(1))
  /\ WF_vars(PatientsQuerySettles)
  /\ WF_vars(DiagnosesQuerySettles)

\* --------------------------------------------- the Analyze button
\* analyzeMutation.isPending of the mounted page: a call this mount started
\* has not settled.
isPending ==
  \E r \in DOMAIN cli :
    /\ r > page.since
    /\ cli[r].kind = "page"
    /\ cli[r].pc \in { "primary_wait", "fallback_wait" }

hasSymptomsForAnalyze == Len(page.selectedSymptoms) > 0

\* Variant: the button does not look at isPending.
ButtonDisabled_NoPending ==
  \/ page.selectedPatient = NoPatient
  \/ ~hasSymptomsForAnalyze

\* disabled={!selectedPatient || !hasSymptomsForAnalyze ||
\*           analyzeMutation.isPending}
ButtonDisabled ==
  \/ page.selectedPatient = NoPatient
  \/ ~hasSymptomsForAnalyze
  \/ isPending

\* The analyze calls started so far
Started == Cardinality({ r \in DOMAIN cli : cli[r].pc # "idle" })

\* <Route path="/" component={DiagnosisPage} />: the user comes (back) to
\* "/" and a new DiagnosisPage is mounted.
MountPage ==
  /\ ~page.mounted
  /\ page' = FreshPage(Started)
  /\ UNCHANGED << host, online, now, patients, diagnoses, knowledge,
                  cacheDiagnoses, lastSync, cachePatients, reply, issued,
                  cli, srv >>

\* A sidebar Link leads to "/patients" or "/history": the page is
\* unmounted; nothing aborts a call it has started.
UnmountPage ==
  /\ page.mounted
  /\ page' = [page EXCEPT !.mounted = FALSE]
  /\ UNCHANGED << host, online, now, patients, diagnoses, knowledge,
                  cacheDiagnoses, lastSync, cachePatients, reply, issued,
                  cli, srv >>

\* Select.onValueChange: setSelectedPatient(patients.find(...) || null)
SelectPatient(i) ==
  /\ page.mounted
  /\ i \in 1..Len(patients)
  /\ page' = [page EXCEPT !.selectedPatient = patients[i]]
  /\ UNCHANGED << host, online, now, patients, diagnoses, knowledge,
                  cacheDiagnoses, lastSync, cachePatients, reply, issued,
                  cli, srv >>

\* handleSymptomToggle: prev.includes(symptom) ? prev.filter(...) :
\* [...prev, symptom]
handleSymptomToggle(prev, symptom) ==
  IF symptom \in Elements(prev)
  THEN SelectSeq(prev, LAMBDA s : s # symptom)
  ELSE Append(prev, symptom)

SymptomToggle(symptom) ==
  /\ page.mounted
  /\ page' = [page EXCEPT !.selectedSymptoms =
                             handleSymptomToggle(@, symptom)]
  /\ UNCHANGED << host, online, now, patients, diagnoses, knowledge,
                  cacheDiagnoses, lastSync, cachePatients, reply, issued,
                  cli, srv >>

\* A click on the button: onClick={handleAnalyze}, unless disabled
ClickAnalyze(r) ==
  /\ page.mounted
  /\ ~ButtonDisabled
  /\ HandleAnalyze(r, page.selectedPatient, page.selectedSymptoms)

\* The user at the page and in the sidebar, the calls served without a
\* store fault
NextButton ==
  \/ MountPage
  \/ UnmountPage
  \/ SelectPatient(1)
  \/ SymptomToggle("cough")
  \/ \E r \in Calls : ClickAnalyze(r)
  \/ \E r \in Calls : ServerValidate(r)
  \/ \E r \in Calls : NlpFail(r)
  \/ \E r \in Calls :
       NlpSucceed(r, CHOOSE ai \in NlpResponses : ai.requiresReferral, FALSE)
  \/ \E r \in Calls : AddKnowledge(r, FALSE)
  \/ \E r \in Calls : PrimaryRespond(r)
  \/ \E r \in Calls : FallbackFail(r)

SpecButton == InitConcurrent /\ [][NextButton]_vars

\* ------------------------------------------------- list fetches that race
\* Patients queries in flight at the same time (pages open in several
\* tabs share the same localStorage) while patients are being created.
MaxFetches == 2

Fetches == 1..MaxFetches

InitRace ==
  /\ host = Browser
  /\ page = FreshPage(0)
  /\ online = TRUE
  /\ now = 0
  /\ patients = << >>
  /\ diagnoses = << >>
  /\ knowledge = << >>
  /\ cacheDiagnoses = Absent
  /\ lastSync = NoSync
  /\ cachePatients = Absent
  /\ reply = NoReply
  /\ issued = {}
  /\ cli = [f \in Fetches |-> IdleClient]
  /\ srv = [r \in Requests |-> IdleServer]

\* useQuery({ queryKey: ["/api/patients"] }): the fetch is sent
PatientsQueryFetch(f) ==
  /\ cli[f].pc = "idle"
  /\ cli' = [cli EXCEPT ![f].kind = "patientsQuery", ![f].pc = "fetching"]
  /\ UNCHANGED << host, page, online, now, patients, diagnoses, knowledge,
                  cacheDiagnoses, lastSync, cachePatients, reply, issued,
                  srv >>

\* GET /api/patients: res.json(await storage.getAllPatients())
PatientsRouteAnswers(f) ==
  /\ cli[f].pc = "fetching"
  /\ cli' = [cli EXCEPT ![f].pc = "answered",
                        ![f].result = [list |-> livePatients]]
  /\ UNCHANGED << host, page, online, now, patients, diagnoses, knowledge,
                  cacheDiagnoses, lastSync, cachePatients, reply, issued,
                  srv >>

\* Variant: the effect adds the list to the one stored.
PatientsFetchSettles_Append(f) ==
  /\ cli[f].pc = "answered"
  /\ cli' = [cli EXCEPT ![f].pc = "settled"]
  /\ IF effectSaves(cli[f].result.list)
     THEN /\ cachePatients' =
               (IF cachePatients = Absent THEN << >> ELSE cachePatients)
                 \o cli[f].result.list
          /\ lastSync' = now
     ELSE UNCHANGED << cachePatients, lastSync >>
  /\ UNCHANGED << host, page, online, now, patients, diagnoses, knowledge,
                  cacheDiagnoses, reply, issued, srv >>

\* The response arrives, the query's data becomes the list and the effect
\* on [patients] runs: if (patients && patients.length > 0)
\* offlineCache.savePatients(patients)
PatientsFetchSettles(f) ==
  /\ cli[f].pc = "answered"
  /\ cli' = [cli EXCEPT ![f].pc = "settled"]
  /\ IF effectSaves(cli[f].result.list)
     THEN /\ cachePatients' = savePatients(cli[f].result.list)
          /\ lastSync' = now
     ELSE UNCHANGED << cachePatients, lastSync >>
  /\ UNCHANGED << host, page, online, now, patients, diagnoses, knowledge,
                  cacheDiagnoses, reply, issued, srv >>

NextRace ==
  \/ \E p \in GatewayPatientInputs : CallCreatePatient(p)
  \/ \E f \in Fetches : PatientsQueryFetch(f)
  \/ \E f \in Fetches : PatientsRouteAnswers(f)
  \/ \E f \in Fetches : PatientsFetchSettles(f)

SpecRace == InitRace /\ [][NextRace]_vars


\* ================================================================ claims

Page(r) == cli[r].kind = "page"

\* C1: when isOnline() reports offline as analyze runs, the call makes no
\* POST /api/diagnose at all (the handler never sees the request) and goes
\* straight to diagnoseOffline, which it calls once.
C1_OfflineSkipsPrimary ==
  \A r \in Requests :
    (Page(r) /\ cli[r].oracle = "offline") =>
      /\ cli[r].primaryCalls = 0
      /\ srv[r].spc = "none"
      /\ cli[r].fallbackCalls = 1
      /\ cli[r].pc \in { "fallback_wait", "success" }
      /\ cli[r].source \in { "none", "fallback", "degraded" }

C1_Witness ==
  \E r \in Requests :
    /\ Page(r) /\ cli[r].oracle = "offline"
    /\ cli[r].pc = "success" /\ cli[r].source = "fallback"

\* C2: when isOnline() reports online, the primary is called exactly once;
\* if that call fails (non-2xx or transport error) the fallback is called
\* exactly once and its result is the one returned; if it succeeds the
\* fallback is never called and the primary's body is returned.
C2_FallbackOnceOnPrimaryFailure ==
  \A r \in Requests :
    (Page(r) /\ cli[r].oracle = "online") =>
      /\ cli[r].primaryCalls = 1
      /\ cli[r].primaryOutcome = "none" =>
           cli[r].fallbackCalls = 0 /\ cli[r].pc = "primary_wait"
      /\ cli[r].primaryOutcome = "failed" =>
           /\ cli[r].fallbackCalls = 1
           /\ cli[r].pc \in { "fallback_wait", "success" }
           /\ cli[r].pc = "success" =>
                \/ /\ cli[r].source = "fallback"
                   /\ \E ai \in NlpResponses :
                        cli[r].result =
                          tagMode(FallbackBody(ai, cli[r].responseMode))
                \/ /\ cli[r].source = "degraded"
                   /\ cli[r].result = degradedResult(cli[r].input)
      /\ cli[r].primaryOutcome = "ok" =>
           /\ cli[r].fallbackCalls = 0
           /\ cli[r].pc = "success"
           /\ cli[r].source = "primary"
           /\ cli[r].result = srv[r].body

C2_Witness ==
  \E r \in Requests :
    /\ Page(r) /\ cli[r].oracle = "online"
    /\ srv[r].status = 500
    /\ cli[r].primaryOutcome = "failed"
    /\ cli[r].pc = "success" /\ cli[r].source = "fallback"


Returned(r) == Page(r) /\ cli[r].pc = "success"

\* C3 as stated: every result analyze returns carries the tag "online" when
\* the primary produced it and "offline" when the fallback produced it.
C3_Original ==
  \A r \in Requests :
    Returned(r) =>
      /\ cli[r].source = "primary" => ModeOf(cli[r].result) = "online"
      /\ cli[r].source \in { "fallback", "degraded" } =>
           ModeOf(cli[r].result) = "offline"

\* C3: a result of the primary carries no mode field (the page announces
\* it as an ordinary success); a result of the fallback carries the mode
\* field of the fallback body when that has one, else "offline"; the
\* minimal result of a failed fallback carries "offline".  The page
\* announces offline mode exactly when the field reads "offline".
C3_ProvenanceTag ==
  \A r \in Requests :
    Returned(r) =>
      /\ cli[r].source = "primary" => "mode" \notin DOMAIN cli[r].result
      /\ cli[r].source = "degraded" => ModeOf(cli[r].result) = "offline"
      /\ cli[r].source = "fallback" =>
           ModeOf(cli[r].result) =
             IF cli[r].responseMode = NoMode
             THEN "offline" ELSE cli[r].responseMode
      /\ cli[r].toast = "Diagnosis completed in offline mode"
           <=> ModeOf(cli[r].result) = "offline"

C3_Witness ==
  \E r \in Requests :
    /\ Returned(r) /\ cli[r].source = "fallback"
    /\ cli[r].responseMode = NoMode
    /\ ModeOf(cli[r].result) = "offline"

\* C4: when the fallback fetch fails or answers non-2xx, analyze still
\* resolves (onSuccess, not onError) with the minimal result: the fixed
\* "service unavailable" diagnosis, no differential, no referral, the fixed
\* referral reason.
C4_DegradedResult ==
  \A r \in Requests :
    (Page(r) /\ cli[r].source = "degraded") =>
      /\ cli[r].pc = "success"
      /\ cli[r].result.primaryDiagnosis =
           "Offline diagnosis service unavailable"
      /\ cli[r].result.differentialDiagnoses = << >>
      /\ cli[r].result.requiresReferral = FALSE
      /\ cli[r].result.referralReason = "Error in local NLP service"
      /\ cli[r].toast = "Diagnosis completed in offline mode"

C4_Witness ==
  \E r \in Requests :
    /\ Page(r) /\ cli[r].source = "degraded"
    /\ cli[r].oracle = "offline" /\ cli[r].pc = "success"


Pending(r) == cli[r].pc \in { "primary_wait", "fallback_wait" }

EmptySymptoms(r) ==
  cli[r].kind # "none" /\ Len(cli[r].input.symptoms) = 0

\* C6: a request with no symptom is refused before any backend work: the
\* page shows the error toast and calls neither POST /api/diagnose nor
\* diagnoseOffline, online or offline; the handler, if such a body is
\* posted to it, answers 400 before calling the NLP service; no Diagnosis
\* and no knowledge entry is written for it.
C6_EmptySymptomsRejected ==
  \A r \in Requests :
    EmptySymptoms(r) =>
      /\ Page(r) =>
           /\ cli[r].pc = "rejected"
           /\ cli[r].toast =
                "Please select a patient and at least one symptom"
           /\ cli[r].primaryCalls = 0
           /\ srv[r].spc = "none"
      /\ cli[r].fallbackCalls = 0
      /\ srv[r].nlpCalls = 0
      /\ srv[r].diagnosis = NoBody
      /\ srv[r].kb = NoBody
      /\ srv[r].spc = "done" => srv[r].status = 400

C6_Witness ==
  \E r \in Requests :
    /\ Page(r) /\ EmptySymptoms(r)
    /\ cli[r].input.patientId # NoId
    /\ cli[r].pc = "rejected"
    /\ ~online


Rows(table) == { table[i] : i \in 1..Len(table) }

\* C7 as stated: whenever analyze returns a result that is not the minimal
\* one, from the primary or from the fallback, a Diagnosis of the request
\* has been stored and a knowledge entry derived.
C7_Original ==
  \A r \in Requests :
    (Returned(r) /\ cli[r].source \in { "primary", "fallback" }) =>
      /\ srv[r].diagnosis \in Rows(diagnoses)
      /\ srv[r].kb \in Rows(knowledge)

\* C7: whenever analyze returns a result of the primary, that result is the
\* Diagnosis stored by createDiagnosis for the request, and a knowledge
\* entry with its symptoms and diagnosis has been stored; a result obtained
\* on the offline route (the primary never called) is returned with nothing
\* stored for the request.
C7_PrimaryResultPersisted ==
  \A r \in Requests :
    Returned(r) =>
      /\ cli[r].source = "primary" =>
           /\ cli[r].result = srv[r].diagnosis
           /\ cli[r].result \in Rows(diagnoses)
           /\ srv[r].kb \in Rows(knowledge)
           /\ srv[r].kb.symptoms = cli[r].result.symptoms
           /\ srv[r].kb.diagnosis = cli[r].result.primaryDiagnosis
      /\ cli[r].primaryCalls = 0 =>
           /\ srv[r].diagnosis = NoBody
           /\ srv[r].kb = NoBody
           /\ cli[r].result \notin Rows(diagnoses)

C7_Witness ==
  \E r \in Requests :
    /\ Returned(r) /\ cli[r].source = "primary"
    /\ cli[r].result \in Rows(diagnoses)
    /\ srv[r].kb \in Rows(knowledge)

\* The stored diagnoses / knowledge entries with given symptoms and diagnosis
DiagCount(syms, dx) ==
  Cardinality({ i \in 1..Len(diagnoses) :
                  diagnoses[i].symptoms = syms
                  /\ diagnoses[i].primaryDiagnosis = dx })

KbCount(syms, dx) ==
  Cardinality({ i \in 1..Len(knowledge) :
                  knowledge[i].symptoms = syms
                  /\ knowledge[i].diagnosis = dx })

\* The requests whose Diagnosis was stored and whose addKnowledgeEntry failed
KbFailed(syms, dx) ==
  Cardinality({ r \in Requests :
                  /\ srv[r].spc = "done"
                  /\ srv[r].diagnosis # NoBody
                  /\ srv[r].kb = NoBody
                  /\ srv[r].diagnosis.symptoms = syms
                  /\ srv[r].diagnosis.primaryDiagnosis = dx })

Quiescent == \A r \in Requests : srv[r].spc \in { "none", "done" }

\* C8 as stated: once the requests have finished, every stored Diagnosis
\* has exactly one knowledge entry with its symptoms and diagnosis.
C8_Original ==
  Quiescent =>
    \A d \in Rows(diagnoses) :
      KbCount(d.symptoms, d.primaryDiagnosis)
        = DiagCount(d.symptoms, d.primaryDiagnosis)

\* C8: a stored Diagnosis never has more than one knowledge entry; once the
\* requests have finished it has exactly one if its addKnowledgeEntry
\* succeeded (the request was answered 201) and none if it failed; no
\* knowledge entry exists without its Diagnosis.
C8_KnowledgeEntryPerDiagnosis ==
  /\ \A k \in Rows(knowledge) :
       KbCount(k.symptoms, k.diagnosis) <= DiagCount(k.symptoms, k.diagnosis)
  /\ \A r \in Requests :
       /\ srv[r].kb # NoBody =>
            /\ srv[r].status = 201
            /\ srv[r].kb \in Rows(knowledge)
            /\ srv[r].diagnosis \in Rows(diagnoses)
       /\ srv[r].status = 201 => srv[r].kb # NoBody
  /\ Quiescent =>
       \A d \in Rows(diagnoses) :
         DiagCount(d.symptoms, d.primaryDiagnosis)
           = KbCount(d.symptoms, d.primaryDiagnosis)
             + KbFailed(d.symptoms, d.primaryDiagnosis)

C8_Witness ==
  /\ Quiescent
  /\ \E r \in Requests :
       /\ srv[r].status = 201
       /\ KbCount(srv[r].diagnosis.symptoms,
                  srv[r].diagnosis.primaryDiagnosis) = 1
       /\ DiagCount(srv[r].diagnosis.symptoms,
                    srv[r].diagnosis.primaryDiagnosis) = 1

\* C9: the ageGroup of a derived knowledge entry is "child" for an age
\* below 18, "adult" for 18 to 59 and "senior" from 60 on, for every
\* integer age from 0 to 150.
C9_AgeGroupBuckets ==
  \A r \in Requests :
    srv[r].kb # NoBody =>
      LET a == cli[r].input.patientAge
          g == srv[r].kb.ageGroup
      IN /\ srv[r].kb \in Rows(knowledge)
         /\ a < 18 => g = "child"
         /\ (18 <= a /\ a <= 59) => g = "adult"
         /\ a >= 60 => g = "senior"

C9_Witness ==
  \E r \in Requests :
    /\ srv[r].kb # NoBody
    /\ cli[r].input.patientAge = 59
    /\ srv[r].kb.ageGroup = "adult"

\* C10 as stated: when addKnowledgeEntry fails after createDiagnosis
\* succeeded, the primary path of analyze still succeeds: the handler
\* answers 201 with the stored Diagnosis.
C10_BestEffortKnowledge ==
  \A r \in Requests :
    ( /\ Page(r)
      /\ srv[r].spc = "done"
      /\ srv[r].diagnosis # NoBody
      /\ srv[r].kb = NoBody )
      => (srv[r].status = 201 /\ srv[r].body = srv[r].diagnosis)

Confidences(l) == { l[i].confidence : i \in 1..Len(l) }

Highest(S) == CHOOSE m \in S : \A x \in S : x <= m

\* C11 as stated: the confidence of a derived knowledge entry is the highest
\* confidence among the differentials of the NLP body, or 100 when the body
\* lists none, whatever the order of the list.
C11_Original ==
  \A r \in Requests :
    ( /\ srv[r].kb # NoBody
      /\ NoConfidence \notin Confidences(srv[r].ai.differentialDiagnoses) ) =>
      LET l == srv[r].ai.differentialDiagnoses
      IN srv[r].kb.confidence =
           IF Len(l) = 0 THEN 100 ELSE Highest(Confidences(l))

\* C11: the confidence of a derived knowledge entry is the confidence of
\* the first differential of the NLP body, whatever the order of the list,
\* and 100 when the body lists none or the first carries no confidence.
C11_FirstDifferentialConfidence ==
  \A r \in Requests :
    srv[r].kb # NoBody =>
      LET l == srv[r].ai.differentialDiagnoses
      IN /\ srv[r].kb \in Rows(knowledge)
         /\ Len(l) = 0 => srv[r].kb.confidence = 100
         /\ (Len(l) >= 1 /\ l[1].confidence = NoConfidence) =>
              srv[r].kb.confidence = 100
         /\ (Len(l) >= 1 /\ l[1].confidence # NoConfidence) =>
              srv[r].kb.confidence = l[1].confidence

\* A list in ascending order: the entry takes the lower, first confidence.
C11_Witness ==
  \E r \in Requests :
    /\ srv[r].kb # NoBody
    /\ Len(srv[r].ai.differentialDiagnoses) = 2
    /\ srv[r].ai.differentialDiagnoses[1].confidence = 60
    /\ srv[r].ai.differentialDiagnoses[2].confidence = 80
    /\ srv[r].kb.confidence = 60

\* C13: every stored Diagnosis names a patient that exists; createDiagnosis
\* for a patientId that matches no patient throws (the handler answers
\* 500) and leaves the diagnoses table as it was.
C13_DiagnosisReferencesPatient ==
  /\ [](\A d \in Rows(diagnoses) : PatientExists(d.patientId))
  /\ [](\A r \in Requests :
          (srv[r].diagnosis # NoBody \/ srv[r].spc = "kb") =>
             PatientExists(cli[r].input.patientId))
  /\ [][ \A r \in Requests :
           ( /\ srv[r].spc = "nlp_wait"
             /\ srv'[r].spc # "nlp_wait"
             /\ ~PatientExists(cli[r].input.patientId) ) =>
             ( /\ diagnoses' = diagnoses
               /\ srv'[r].spc = "done"
               /\ srv'[r].status = 500
               /\ srv'[r].diagnosis = NoBody ) ]_vars

C13_Witness ==
  \E r \in Requests :
    /\ srv[r].spc = "done"
    /\ srv[r].error = "createDiagnosis"
    /\ cli[r].input.patientId = UnknownId
    /\ Len(patients) >= 1
    /\ diagnoses = << >>

\* The stored entries a query matches, as searchKnowledge returns them
Matching(q) ==
  { rowToKnowledge(k) : k \in
      { k \in Rows(knowledge) :
          /\ k.ageGroup = q.ageGroup
          /\ (k.gender = q.gender \/ k.gender = "other")
          /\ Elements(k.symptoms) \cap Elements(q.symptoms) # {} } }

\* C12: searchKnowledge(symptoms, ageGroup, gender) returns exactly the
\* stored entries of that ageGroup whose gender is the query's or "other"
\* and whose symptoms share an element with the query's, each once, in
\* order of descending confidence.
C12_SearchKnowledge ==
  reply.op = "searchKnowledge" =>
    LET l == reply.value.list
    IN /\ Elements(l) = Matching(reply.arg)
       /\ Len(l) = Cardinality(Matching(reply.arg))
       /\ \A i, j \in 1..Len(l) :
            i < j => l[i].confidence >= l[j].confidence

\* Two entries match through "fever" and come back in the reverse of the
\* order they were stored in; one of them matches by the gender "other".
C12_Witness ==
  /\ reply.op = "searchKnowledge"
  /\ reply.arg.symptoms = << "fever" >>
  /\ reply.arg.gender = "male"
  /\ Len(reply.value.list) = 2
  /\ reply.value.list[1].id = 2
  /\ reply.value.list[2].id = 1
  /\ reply.value.list[1].confidence > reply.value.list[2].confidence
  /\ reply.value.list[1].gender = "other"

IsListing ==
  reply.op \in { "getAllPatients", "getAllDiagnoses",
                 "getDiagnosesByPatient" }

\* C14 as stated: getAllPatients, getAllDiagnoses and getDiagnosesByPatient
\* list their records by creation time descending: of two records the one
\* created later comes first, also when both were created within the same
\* second.
C14_NewestFirst ==
  IsListing =>
    LET l == reply.value.list
    IN \A i, j \in 1..Len(l) :
         i < j => l[i].createdAt.date >= l[j].createdAt.date

\* C15: createPatient returns a record with a fresh id, the time of the
\* call and the fields of the input, an absent weight as null; getPatient
\* with that id returns the identical record at any later time; getPatient
\* with an id never returned yields undefined.
C15_PatientRoundTrip ==
  /\ \A p1, p2 \in issued : p1.id = p2.id => p1 = p2
  /\ reply.op = "createPatient" =>
       /\ reply.value \in issued
       /\ reply.value.name = reply.arg.name
       /\ reply.value.age = reply.arg.age
       /\ reply.value.gender = reply.arg.gender
       /\ reply.value.weight =
            IF "weight" \in DOMAIN reply.arg THEN reply.arg.weight
            ELSE NullWeight
       /\ reply.value.createdAt = newDate(reply.at)
       /\ getPatient(reply.value.id) = reply.value
  /\ reply.op = "getPatient" =>
       IF \E p \in issued : p.id = reply.arg.id
       THEN reply.value \in issued /\ reply.value.id = reply.arg.id
       ELSE reply.value = Undefined

\* A patient without weight read back after the clock has moved on
C15_Witness ==
  /\ reply.op = "getPatient"
  /\ reply.value \in issued
  /\ reply.value.weight = NullWeight
  /\ reply.at > reply.value.createdAt.date

C19_PatientsExpire ==
  ( /\ reply.op = "getPatients"
    /\ cachePatients # Absent
    /\ lastSync # NoSync
    /\ reply.at - lastSync > DayMs ) => reply.value = NullList

\* A step of a live read: of the steps that leave the tables, the calls
\* and the connectivity alone, the one that answers the given GET.
LiveRead(op) ==
  /\ reply'.op = op
  /\ UNCHANGED << host, page, online, patients, diagnoses, knowledge, cli, srv >>

\* A step in which an analyze call of the page resolves
AnalyzeResolves(r) ==
  /\ cli[r].pc # "success"
  /\ cli'[r].pc = "success"
  /\ cli'[r].kind = "page"

Synced(r) ==
  /\ Returned(r)
  /\ \E d \in Rows(diagnoses) :
       /\ d.patientId = cli[r].input.patientId
       /\ d.symptoms = cli[r].input.symptoms
       /\ d.primaryDiagnosis = cli[r].result.primaryDiagnosis

\* A diagnosis obtained from the fallback while the browser was offline
HeldOffline(r) ==
  /\ Returned(r)
  /\ cli[r].oracle = "offline"
  /\ cli[r].source = "fallback"

\* C20 as stated: a diagnosis produced while offline, held only in the
\* snapshot, is stored through the Record Gateway some time after the
\* browser is online again, without the user submitting it anew.
C20_SyncOnReconnect ==
  \A r \in Requests : (HeldOffline(r) /\ online) ~> Synced(r)


\* C21: isOnline() returns navigator.onLine where the host has that signal
\* and true where it has not; so where the signal is missing an analyze call
\* of the page reads "online" and starts with POST /api/diagnose.
C21_DefaultsOnline ==
  /\ host = Browser => isOnlineReturn = (IF online THEN JsTrue ELSE JsFalse)
  /\ host # Browser => isOnlineReturn = JsTrue
  /\ \A r \in Requests :
       (host # Browser /\ Page(r) /\ cli[r].oracle # "none") =>
         /\ cli[r].oracle = "online"
         /\ cli[r].primaryCalls = 1


\* C22: an analyze request that reaches createDiagnosis with a patientId no
\* patient row carries is answered 404 or 400, never 500, and writes no
\* diagnosis and no knowledge entry.
C22_MissingPatientIsReferenceError ==
  \A r \in Requests :
    ( /\ srv[r].error = "createDiagnosis"
      /\ ~PatientExists(cli[r].input.patientId) ) =>
        /\ srv[r].status \in { 400, 404 }
        /\ \A i \in 1..Len(diagnoses) :
             diagnoses[i].patientId # cli[r].input.patientId
        /\ srv[r].diagnosis = NoBody
        /\ srv[r].kb = NoBody


\* C23: analyze calls for the same patient that overlap are served one by
\* one without deduplication: every call answered 201 has a diagnosis row
\* and a knowledge entry of its own in the tables, and two such calls never
\* share the id of either.
C23_ConcurrentCallsIndependent ==
  /\ \A r \in Calls :
       srv[r].status = 201 =>
         /\ srv[r].diagnosis \in Rows(diagnoses)
         /\ srv[r].kb \in Rows(knowledge)
         /\ srv[r].diagnosis.patientId = cli[r].input.patientId
  /\ \A r1, r2 \in Calls :
       ( /\ r1 # r2
         /\ srv[r1].status = 201
         /\ srv[r2].status = 201 ) =>
           /\ srv[r1].diagnosis.id # srv[r2].diagnosis.id
           /\ srv[r1].kb.id # srv[r2].kb.id
  /\ \A i, j \in 1..Len(diagnoses) : diagnoses[i].id = diagnoses[j].id => i = j
  /\ \A i, j \in 1..Len(knowledge) : knowledge[i].id = knowledge[j].id => i = j

\* Call 2, issued after call 1, stored its diagnosis first: it ran while
\* call 1 was pending; both were answered 201.
C23_Witness ==
  /\ srv[1].status = 201
  /\ srv[2].status = 201
  /\ cli[1].input.patientId = cli[2].input.patientId
  /\ srv[2].diagnosis.id = 1
  /\ srv[1].diagnosis.id = 2
  /\ Len(diagnoses) = 2
  /\ Len(knowledge) = 2


\* C24: with several patients fetches in flight, the patients snapshot is
\* at every moment absent or exactly the list of one fetch that has
\* settled, never lists put together; a fetch settling with a non-empty
\* list makes the snapshot that list, whatever was stored before, and no
\* other step changes the snapshot.
C24_LastWriteWins ==
  /\ [](\/ cachePatients = Absent
        \/ \E f \in Fetches :
             /\ cli[f].pc = "settled"
             /\ Len(cli[f].result.list) > 0
             /\ cachePatients = cli[f].result.list)
  /\ [][ IF \E f \in Fetches :
              /\ cli[f].pc = "answered"
              /\ cli'[f].pc = "settled"
              /\ Len(cli[f].result.list) > 0
         THEN \E f \in Fetches :
                /\ cli[f].pc = "answered"
                /\ cli'[f].pc = "settled"
                /\ cachePatients' = cli[f].result.list
         ELSE cachePatients' = cachePatients ]_vars

\* Fetch 1 was answered with one patient and fetch 2, later, with two;
\* fetch 2 saved first and fetch 1 last, so the older list is the snapshot.
C24_Witness ==
  /\ cli[1].pc = "settled"
  /\ cli[2].pc = "settled"
  /\ Len(cli[1].result.list) = 1
  /\ Len(cli[2].result.list) = 2
  /\ cachePatients = cli[1].result.list
  /\ cachePatients # cli[2].result.list


\* C25: no operation of the Record Gateway changes or removes a stored
\* record: every row a table holds before a step is in the table, with the
\* same values in every field, after it, and no table gets shorter.
C25_RecordsImmutable ==
  [][ /\ Rows(patients) \subseteq Rows(patients')
      /\ Rows(diagnoses) \subseteq Rows(diagnoses')
      /\ Rows(knowledge) \subseteq Rows(knowledge')
      /\ Len(patients') >= Len(patients)
      /\ Len(diagnoses') >= Len(diagnoses)
      /\ Len(knowledge') >= Len(knowledge) ]_vars

\* Every table holds as many rows as were inserted, the first of each still
\* the one inserted first, after reads and further inserts.
C25_Witness ==
  /\ Len(patients) = MaxRows
  /\ Len(diagnoses) = MaxRows
  /\ Len(knowledge) = MaxRows
  /\ patients[1].id = 1
  /\ diagnoses[1].id = 1
  /\ knowledge[1].id = 1
  /\ reply.op = "searchKnowledge"


\* C26: a diagnosis row exists only for a request whose call to the NLP
\* service succeeded.  When that call fails or times out the handler
\* answers with an error status, the step writes nothing to the diagnoses
\* and knowledge tables, and the request never gets a row in either.
C26_NoDiagnosisWithoutBackend ==
  /\ [](\A r \in Requests :
          srv[r].error = "axios.post" =>
            /\ srv[r].status >= 400
            /\ srv[r].ai = NoBody
            /\ srv[r].diagnosis = NoBody
            /\ srv[r].kb = NoBody)
  /\ [](\A d \in Rows(diagnoses) :
          \E r \in Requests :
            /\ srv[r].diagnosis = d
            /\ srv[r].ai # NoBody
            /\ srv[r].error # "axios.post")
  /\ [](\A k \in Rows(knowledge) :
          \E r \in Requests :
            /\ srv[r].kb = k
            /\ srv[r].diagnosis \in Rows(diagnoses))
  /\ [][ (\E r \in Requests :
            srv[r].error # "axios.post" /\ srv'[r].error = "axios.post") =>
           /\ diagnoses' = diagnoses
           /\ knowledge' = knowledge ]_vars

\* The request of a page for a stored patient, valid, whose NLP call
\* failed: answered 500, the tables as they were.
C26_Witness ==
  \E r \in Requests :
    /\ Page(r)
    /\ PatientExists(cli[r].input.patientId)
    /\ srv[r].error = "axios.post"
    /\ srv[r].status = 500
    /\ srv[r].nlpCalls = 1
    /\ \A d \in Rows(diagnoses) : d.patientId # cli[r].input.patientId


\* The diagnosis of request r as the storage returns it
StoredDiagnosis(r) == rowToDiagnosis(srv[r].diagnosis)

\* C27: when addKnowledgeEntry has failed for a request whose diagnosis was
\* stored, the diagnosis row stays in the table from then on: getDiagnosis
\* of its id returns it, and getAllDiagnoses and getDiagnosesByPatient of
\* its patient list it.
C27_DiagnosisSurvivesKnowledgeFailure ==
  \A r \in Requests :
    srv[r].error = "addKnowledgeEntry" =>
      /\ srv[r].kb = NoBody
      /\ srv[r].diagnosis \in Rows(diagnoses)
      /\ getDiagnosis(srv[r].diagnosis.id) = StoredDiagnosis(r)
      /\ StoredDiagnosis(r) \in Rows(getAllDiagnoses)
      /\ StoredDiagnosis(r) \in
           Rows(getDiagnosesByPatient(srv[r].diagnosis.patientId))

\* The handler answered 500 after the failed knowledge INSERT and the page
\* has since gone through its fallback; the diagnosis is still read back.
C27_Witness ==
  \E r \in Requests :
    /\ srv[r].error = "addKnowledgeEntry"
    /\ srv[r].status = 500
    /\ cli[r].pc = "success"
    /\ Len(knowledge) = 0
    /\ getDiagnosis(srv[r].diagnosis.id) = StoredDiagnosis(r)


\* C28: when the result a page shows for a submission came from the
\* fallback backend or is the minimal result, no diagnosis row was stored
\* for that submission.
C28_OfflineResultNothingStored ==
  \A r \in Requests :
    ( /\ Page(r)
      /\ Returned(r)
      /\ cli[r].source \in { "fallback", "degraded" } ) =>
        /\ srv[r].diagnosis = NoBody
        /\ \A d \in Rows(diagnoses) : d.patientId # cli[r].input.patientId


\* C29: a snapshot that is present never holds the empty list, and a live
\* read that resolves with an empty list leaves the snapshot of its
\* collection, present or absent, as it was.
C29_SnapshotNeverEmptyList ==
  /\ [](cachePatients # << >>)
  /\ [](cacheDiagnoses # << >>)
  /\ [][ /\ ( /\ LiveRead("GET /api/patients")
              /\ Len(reply'.value.list) = 0 ) =>
                cachePatients' = cachePatients
         /\ ( /\ LiveRead("GET /api/diagnoses")
              /\ Len(reply'.value.list) = 0 ) =>
                cacheDiagnoses' = cacheDiagnoses ]_vars

\* The diagnoses snapshot holds the result of an analyze call; the live
\* list of diagnoses, read after it, was empty.
C29_Witness ==
  /\ reply.op = "GET /api/diagnoses"
  /\ Len(reply.value.list) = 0
  /\ cacheDiagnoses # Absent
  /\ Len(cacheDiagnoses) = 1
  /\ \E r \in Requests : Returned(r) /\ cacheDiagnoses[1] = cli[r].result


\* The analyze calls of the page that have not settled
InFlight ==
  { r \in DOMAIN cli :
      cli[r].kind = "page" /\ cli[r].pc \in { "primary_wait", "fallback_wait" } }

\* A step that starts analyze call r
Starts(r) == cli[r].pc = "idle" /\ cli'[r].pc # "idle"

\* C30 as stated: at most one analyze call of the Diagnosis page is in
\* flight at any time.
C30_Original == Cardinality(InFlight) <= 1

\* C30: of the calls started by the Diagnosis page as now mounted at most
\* one is in flight; a call starts only with the page mounted, a patient
\* selected, a symptom chosen and no call of this mount pending, and it is
\* never the rejected one.  Calls started by an earlier mount of the page
\* are not counted.
C30_OneCallPerMount ==
  /\ [](Cardinality({ r \in InFlight : r > page.since }) <= 1)
  /\ [][ \A r \in DOMAIN cli :
           Starts(r) =>
             /\ page.mounted
             /\ page.selectedPatient # NoPatient
             /\ Len(page.selectedSymptoms) > 0
             /\ ~isPending
             /\ cli'[r].pc # "rejected"
             /\ cli'[r].input.patientId = page.selectedPatient.id
             /\ cli'[r].input.symptoms = page.selectedSymptoms ]_vars

\* A call is pending and the button of the page that started it is
\* disabled although a patient and symptoms are selected.
C30_Witness ==
  /\ page.mounted
  /\ page.selectedPatient # NoPatient
  /\ Len(page.selectedSymptoms) > 0
  /\ \E r \in InFlight : r > page.since
  /\ ButtonDisabled

====
